---- MODULE Spec2Model ----
(***************************************************************************)
(* A model of anaplan_sdk._async_client.AsyncClient: construction and      *)
(* credential selection, the tenacity-wrapped authenticated calls (_get,   *)
(* _get_binary, _post, _upload_chunk) with _recover_or_raise, run_action's *)
(* invoke/poll loop and upload_file's partition/declare/gather pipeline.   *)
(* Coroutines are interleaved at their await points; the server and the    *)
(* authentication endpoint are the environment and answer freely.          *)
(***************************************************************************)
EXTENDS Integers, Sequences, FiniteSets, TLC

(* ------------------------------ bounds --------------------------------- *)
\* longest content uploaded under Spec (one byte per chunk at chunk size 1)
MaxLen == 2
\* largest upload_chunk_size drawn under Spec
MaxChunkSize == 2
\* longest content / largest chunk size drawn under SpecChunks
MaxChunkLen == 4
MaxChunkStep == 3
\* number of failing answers (error status or transport error) per run
MaxFaults == 4
\* number of status polls after which the server reports a terminal state
MaxPolls == 2

\* tenacity: stop_after_attempt(2) on every wrapper
StopAfterAttempt == 2

(* ------------------------------ values --------------------------------- *)
Bytes == {0, 1}

Min(a, b) == IF a < b THEN a ELSE b

\* strings the code inspects character by character are tuples of characters
COMPLETE == <<"C", "O", "M", "P", "L", "E", "T", "E">>
COMPLETED == <<"C", "O", "M", "P", "L", "E", "T", "E", "D">>
IN_PROGRESS == <<"I", "N", "_", "P", "R", "O", "G", "R", "E", "S", "S">>
NOT_STARTED == <<"N", "O", "T", "_", "S", "T", "A", "R", "T", "E", "D">>
TaskStates == {NOT_STARTED, IN_PROGRESS, COMPLETE, COMPLETED}

\* Python's `sub in s` on strings
Contains(sub, s) ==
    \E k \in 0..(Len(s) - Len(sub)) : SubSeq(s, k + 1, k + Len(sub)) = sub

\* what a call hands to its awaiter: nothing yet, a normal return, or an exception
Exc(name, status) == [exc |-> name, status |-> status]
Pending == Exc("pending", 0)
Return == Exc("return", 0)
HTTPStatusError(code) == Exc("HTTPStatusError", code)
TransportError == Exc("TimeoutException", 0)
ReAuthException == Exc("ReAuthException", 0)
RetryError == Exc("RetryError", 0)
InvalidIdentifierException == Exc("InvalidIdentifierException", 404)
InvalidCredentialsException == Exc("InvalidCredentialsException", 401)
AnaplanActionError == Exc("AnaplanActionError", 0)
AttributeError == Exc("AttributeError", 0)
TypeError == Exc("TypeError", 0)

\* what the transport gives back for one request
Status(code) == [t |-> "status", code |-> code]
Timeout == [t |-> "timeout", code |-> 0]
Responses == {Status(200), Status(401), Status(404), Status(500), Timeout}
IsFault(r) == r # Status(200)

(* --------------------------- pure functions ---------------------------- *)
\* range(start, stop, step) for step >= 1
RECURSIVE Range(_, _, _)
Range(start, stop, step) ==
    IF start >= stop THEN <<>> ELSE <<start>> \o Range(start + step, stop, step)

\* a slice that stops one byte early
SliceMut(content, i, j) == SubSeq(content, i + 1, Min(j - 1, Len(content)))

\* content[i : j] for 0 <= i <= j
Slice(content, i, j) == SubSeq(content, i + 1, Min(j, Len(content)))

\* upload_file: the list comprehension that partitions the content
Partition(content, size) ==
    LET starts == Range(0, Len(content), size)
    IN  [k \in 1..Len(starts) |-> Slice(content, starts[k], starts[k] + size)]

RECURSIVE Concat(_)
Concat(seqs) == IF seqs = <<>> THEN <<>> ELSE Head(seqs) \o Concat(Tail(seqs))

\* __init__: the credential check
CredentialsAccepted(c) ==
    (c.user_email /\ c.password) \/ (c.certificate /\ c.private_key)

\* `self._cert_auth() if self.certificate else self._basic_auth()`
Protocol(c) == IF c.certificate THEN "cert" ELSE "basic"

(* ------------------------------- state --------------------------------- *)
VARIABLES
    creds,              \* which of user_email, password, certificate, private_key are given
    client,             \* "new", "ok" (constructed) or "failed" (ValueError)
    selected,           \* protocol of the coroutine __init__ creates
    auth_token,         \* self._auth_token; 0 is the empty string
    issued,             \* tokens the authentication endpoint has issued so far
    upload_chunk_size,
    content,
    chunks,
    calls,              \* the wrapped calls, by id
    upl,                \* upload_file
    run,                \* run_action
    getf,               \* get_file
    program,            \* what the host program awaits: "upload", "get", or "run"
                        \* (an action run gathered with a file download)
    faults

vars == <<creds, client, selected, auth_token, issued, upload_chunk_size, content,
          chunks, calls, upl, run, getf, program, faults>>

(* --------------------------- wrapped calls ----------------------------- *)
PutIds == {<<"put", i>> : i \in 0..(MaxLen - 1)}
CallIds == {<<"decl", 0>>, <<"inv", 0>>, <<"poll", 0>>, <<"bin", 0>>} \cup PutIds

\* the wrapper each call goes through
Kind(id) ==
    CASE id[1] = "decl" -> "_post"
      [] id[1] = "inv"  -> "_post"
      [] id[1] = "poll" -> "_get"
      [] id[1] = "bin"  -> "_get_binary"
      [] id[1] = "put"  -> "_upload_chunk"

\* a call: where it stands, tenacity's attempt number, and what it has exchanged so
\* far: the token each request carried, the answer to each request, the protocol
\* of each authentication it started, the answer to each of those, and the token
\* the authentication endpoint last issued to it
IdleCall == [pc |-> "idle", attempt |-> 0, toks |-> <<>>, resp |-> <<>>,
             auths |-> <<>>, authres |-> <<>>, grant |-> 0, out |-> Pending]
\* a wrapper called: it runs to its first await, the request built with the token
\* current at that time
StartCall(tok) == [IdleCall EXCEPT !.pc = "inflight", !.attempt = 1, !.toks = <<tok>>]

Finish(c, out) == [c EXCEPT !.pc = "done", !.out = out]

\* which wrappers call response.raise_for_status()
ChecksStatus(kind) == kind \in {"_get", "_get_binary", "_upload_chunk"}

\* _cert_auth loads the key before it posts; a missing key is no valid PEM input
KeyLoads(c) == c.private_key

\* _recover_or_raise without its final `raise error`: other failures fall through
RecoverOrRaiseMut(c, r) ==
    IF r.t = "status" /\ r.code = 401
    THEN [c EXCEPT !.pc = "auth", !.auths = Append(@, Protocol(creds))]
    ELSE IF r.t = "status" /\ r.code = 404
    THEN Finish(c, InvalidIdentifierException)
    ELSE Finish(c, Return)

\* _recover_or_raise up to its first await: reauthenticate on 401, translate 404,
\* re-raise everything else
RecoverOrRaise(c, r) ==
    IF r.t = "status" /\ r.code = 401
    THEN IF Protocol(creds) = "cert" /\ ~KeyLoads(creds)
         THEN Finish(c, TypeError)
         ELSE [c EXCEPT !.pc = "auth", !.auths = Append(@, Protocol(creds))]
    ELSE IF r.t = "status" /\ r.code = 404
    THEN Finish(c, InvalidIdentifierException)
    ELSE IF r.t = "status" THEN Finish(c, HTTPStatusError(r.code))
    ELSE Finish(c, TransportError)

\* the body of a wrapper once the transport has answered
OnResponse(kind, c, r) ==
    LET c1 == [c EXCEPT !.resp = Append(@, r)]
    IN  IF r.t = "timeout" THEN RecoverOrRaise(c1, r)
        ELSE IF ChecksStatus(kind) /\ r.code >= 400 THEN RecoverOrRaise(c1, r)
        ELSE Finish(c1, Return)

\* tenacity stopping one attempt later
RetryMut(c) ==
    IF c.attempt < StopAfterAttempt + 1 THEN [c EXCEPT !.pc = "ready"]
    ELSE Finish(c, RetryError)

\* tenacity: retry on ReAuthException until stop_after_attempt, then RetryError
Retry(c) ==
    IF c.attempt < StopAfterAttempt THEN [c EXCEPT !.pc = "ready"]
    ELSE Finish(c, RetryError)

\* _basic_auth / _cert_auth treating a 401 like a success: ReAuthException follows
OnAuthResponseMut(c, r) ==
    LET c1 == [c EXCEPT !.authres = Append(@, r)]
    IN  IF r = Status(200) \/ r = Status(401) THEN Retry(c1)
        ELSE IF r.t = "status" THEN Finish(c1, HTTPStatusError(r.code))
        ELSE Finish(c1, TransportError)

\* _basic_auth / _cert_auth once the authentication endpoint has answered, then
\* the rest of _recover_or_raise
OnAuthResponse(c, r) ==
    LET c1 == [c EXCEPT !.authres = Append(@, r)]
    IN  IF r = Status(200) THEN Retry(c1)
        ELSE IF r = Status(401) THEN Finish(c1, InvalidCredentialsException)
        ELSE IF r.t = "status" THEN Finish(c1, HTTPStatusError(r.code))
        ELSE Finish(c1, TransportError)

(* ------------------------------- tasks --------------------------------- *)
IdleUpload == [pc |-> "idle", declared |-> 0, gexc |-> Pending, err |-> Pending]
IdleRun == [pc |-> "idle", polls |-> 0, taskState |-> <<>>, successful |-> FALSE,
            err |-> Pending]
IdleGet == [pc |-> "idle", err |-> Pending]

NoBody == [taskState |-> <<>>, successful |-> FALSE]

\* a reauthentication that holds the event loop as well (a synchronous request)
BlockedMut ==
    \/ run.pc = "sleeping"
    \/ \E id \in DOMAIN calls : calls[id].pc \in {"auth", "granted"}

\* time.sleep() holds the event loop: no coroutine runs until it returns
Blocked == run.pc = "sleeping"

\* upload_file resumes after `await self._set_chunk_count(...)`: the returned
\* body is dropped, gather() schedules one _upload_chunk per chunk and each runs
\* to its first await
AfterDeclare(c) ==
    IF c.out = Return
    THEN [calls |-> [id \in CallIds |->
                        IF id = <<"decl", 0>> THEN c
                        ELSE IF id[1] = "put" /\ id[2] < Len(chunks) THEN StartCall(auth_token)
                        ELSE calls[id]],
          upl |-> [upl EXCEPT !.pc = "gather"]]
    ELSE [calls |-> [calls EXCEPT ![<<"decl", 0>>] = c],
          upl |-> [upl EXCEPT !.pc = "raised", !.err = c.out]]

\* gather(..., return_exceptions=True): no exception reaches the awaiter
AfterChunkMut(c) == upl

\* a finished _upload_chunk task reports to the gather future: the first
\* exception becomes the future's exception, later ones are dropped
AfterChunk(c) ==
    IF c.out # Return /\ upl.pc = "gather" /\ upl.gexc = Pending
    THEN [upl EXCEPT !.gexc = c.out]
    ELSE upl

\* invoke_action after `await self._post(...)`: response.get("task").get("taskId"),
\* then run_action calls get_task_status; an error body carries no "task"
AfterInvoke(c) ==
    IF c.out # Return
    THEN [calls |-> [calls EXCEPT ![<<"inv", 0>>] = c],
          run |-> [run EXCEPT !.pc = "raised", !.err = c.out]]
    ELSE IF c.resp[Len(c.resp)] = Status(200)
    THEN [calls |-> [calls EXCEPT ![<<"inv", 0>>] = c, ![<<"poll", 0>>] = StartCall(auth_token)],
          run |-> [run EXCEPT !.pc = "polling"]]
    ELSE [calls |-> [calls EXCEPT ![<<"inv", 0>>] = c],
          run |-> [run EXCEPT !.pc = "raised", !.err = AttributeError]]

\* the check run_action makes once its loop has ended
RaisesActionError(taskState, successful) == taskState = COMPLETE /\ ~successful

\* the loop condition of run_action
KeepsPolling(taskState) == ~Contains(COMPLETE, taskState)

\* run_action after `await self.get_task_status(...)`
AfterPoll(c, body) ==
    IF c.out # Return
    THEN [run EXCEPT !.pc = "raised", !.err = c.out]
    ELSE LET r == [run EXCEPT !.polls = @ + 1, !.taskState = body.taskState,
                              !.successful = body.successful]
         IN  IF KeepsPolling(body.taskState) THEN [r EXCEPT !.pc = "sleeping"]
             ELSE IF RaisesActionError(body.taskState, body.successful)
             THEN [r EXCEPT !.pc = "raised", !.err = AnaplanActionError]
             ELSE [r EXCEPT !.pc = "returned"]

\* get_file after `await self._get_binary(...)`
AfterGetBinary(c) ==
    IF c.out = Return THEN [getf EXCEPT !.pc = "returned"]
    ELSE [getf EXCEPT !.pc = "raised", !.err = c.out]

\* a call has moved to c: if it finished, its awaiter runs on to its next await
Resume(id, c, body) ==
    IF c.pc # "done"
    THEN /\ calls' = [calls EXCEPT ![id] = c]
         /\ UNCHANGED <<upl, run, getf>>
    ELSE CASE id[1] = "decl" ->
                /\ calls' = AfterDeclare(c).calls
                /\ upl' = AfterDeclare(c).upl
                /\ UNCHANGED <<run, getf>>
           [] id[1] = "put" ->
                /\ calls' = [calls EXCEPT ![id] = c]
                /\ upl' = AfterChunk(c)
                /\ UNCHANGED <<run, getf>>
           [] id[1] = "inv" ->
                /\ calls' = AfterInvoke(c).calls
                /\ run' = AfterInvoke(c).run
                /\ UNCHANGED <<upl, getf>>
           [] id[1] = "poll" ->
                /\ calls' = [calls EXCEPT ![id] = c]
                /\ run' = AfterPoll(c, body)
                /\ UNCHANGED <<upl, getf>>
           [] id[1] = "bin" ->
                /\ calls' = [calls EXCEPT ![id] = c]
                /\ getf' = AfterGetBinary(c)
                /\ UNCHANGED <<upl, run>>

\* the bodies the server may send with an answer: a task status on a 200 to a
\* poll, reporting a terminal state by the MaxPolls-th poll
Bodies(id, r) ==
    IF id[1] = "poll" /\ r = Status(200)
    THEN {[taskState |-> s, successful |-> b] : s \in TaskStates, b \in BOOLEAN} \ 
         {x \in [taskState : TaskStates, successful : BOOLEAN] :
             \/ ~Contains(COMPLETE, x.taskState) /\ x.successful
             \/ ~Contains(COMPLETE, x.taskState) /\ run.polls + 1 >= MaxPolls}
    ELSE {NoBody}

(* ------------------------------ actions -------------------------------- *)
\* AsyncClient.__init__: the authentication coroutine is created, never awaited
Construct ==
    /\ client = "new"
    /\ IF ~CredentialsAccepted(creds)
       THEN client' = "failed" /\ UNCHANGED selected
       ELSE client' = "ok" /\ selected' = Protocol(creds)
    /\ auth_token' = 0
    /\ UNCHANGED <<creds, issued, upload_chunk_size, content, chunks, calls, upl, run,
                   getf, program, faults>>

\* upload_file that schedules the chunk uploads without awaiting the declaration
UploadFileMut ==
    /\ client = "ok" /\ ~Blocked
    /\ program = "upload" /\ upl.pc = "idle"
    /\ chunks' = Partition(content, upload_chunk_size)
    /\ upl' = [upl EXCEPT !.pc = "declare", !.declared = Len(chunks')]
    /\ calls' = [id \in CallIds |->
                    IF id = <<"decl", 0>> \/ (id[1] = "put" /\ id[2] < Len(chunks'))
                    THEN StartCall(auth_token) ELSE calls[id]]
    /\ UNCHANGED <<creds, client, selected, auth_token, issued, upload_chunk_size,
                   content, run, getf, program, faults>>

\* upload_file up to the first await of _set_chunk_count
UploadFile ==
    /\ client = "ok" /\ ~Blocked
    /\ program = "upload" /\ upl.pc = "idle"
    /\ chunks' = Partition(content, upload_chunk_size)
    /\ upl' = [upl EXCEPT !.pc = "declare", !.declared = Len(chunks')]
    /\ calls' = [calls EXCEPT ![<<"decl", 0>>] = StartCall(auth_token)]
    /\ UNCHANGED <<creds, client, selected, auth_token, issued, upload_chunk_size,
                   content, run, getf, program, faults>>

\* upload_file resuming as soon as one chunk upload has finished
UploadJoinMut ==
    /\ upl.pc = "gather" /\ ~Blocked
    /\ \/ /\ upl.gexc # Pending
          /\ upl' = [upl EXCEPT !.pc = "raised", !.err = upl.gexc]
       \/ /\ upl.gexc = Pending
          /\ \E i \in 0..(Len(chunks) - 1) : calls[<<"put", i>>].pc = "done"
          /\ upl' = [upl EXCEPT !.pc = "returned"]
    /\ UNCHANGED <<creds, client, selected, auth_token, issued, upload_chunk_size,
                   content, chunks, calls, run, getf, program, faults>>

\* upload_file resumes once the gather future is done
UploadJoin ==
    /\ upl.pc = "gather" /\ ~Blocked
    /\ \/ /\ upl.gexc # Pending
          /\ upl' = [upl EXCEPT !.pc = "raised", !.err = upl.gexc]
       \/ /\ upl.gexc = Pending
          /\ \A i \in 0..(Len(chunks) - 1) : calls[<<"put", i>>].pc = "done"
          /\ upl' = [upl EXCEPT !.pc = "returned"]
    /\ UNCHANGED <<creds, client, selected, auth_token, issued, upload_chunk_size,
                   content, chunks, calls, run, getf, program, faults>>

\* run_action up to the first await of invoke_action
RunAction ==
    /\ client = "ok" /\ ~Blocked
    /\ program = "run" /\ run.pc = "idle"
    /\ run' = [run EXCEPT !.pc = "invoking"]
    /\ calls' = [calls EXCEPT ![<<"inv", 0>>] = StartCall(auth_token)]
    /\ UNCHANGED <<creds, client, selected, auth_token, issued, upload_chunk_size,
                   content, chunks, upl, getf, program, faults>>

\* the sleep returns but no further get_task_status is made
WakeMut ==
    /\ run.pc = "sleeping"
    /\ run' = [run EXCEPT !.pc = "polling"]
    /\ UNCHANGED <<creds, client, selected, auth_token, issued, upload_chunk_size,
                   content, chunks, calls, upl, getf, program, faults>>

\* time.sleep(status_poll_delay) returns and the next get_task_status starts
Wake ==
    /\ run.pc = "sleeping"
    /\ run' = [run EXCEPT !.pc = "polling"]
    /\ calls' = [calls EXCEPT ![<<"poll", 0>>] = StartCall(auth_token)]
    /\ UNCHANGED <<creds, client, selected, auth_token, issued, upload_chunk_size,
                   content, chunks, upl, getf, program, faults>>

\* get_file up to the first await of _get_binary
GetFile ==
    /\ client = "ok" /\ ~Blocked
    /\ program \in {"run", "get"} /\ getf.pc = "idle"
    /\ getf' = [getf EXCEPT !.pc = "calling"]
    /\ calls' = [calls EXCEPT ![<<"bin", 0>>] = StartCall(auth_token)]
    /\ UNCHANGED <<creds, client, selected, auth_token, issued, upload_chunk_size,
                   content, chunks, upl, run, program, faults>>

\* tenacity starts the next attempt after its sleep(0): the wrapper runs to its
\* first await, the request built with the token current at that time
Send(id) ==
    /\ calls[id].pc = "ready" /\ ~Blocked
    /\ calls' = [calls EXCEPT ![id] = [@ EXCEPT !.pc = "inflight",
                                                !.attempt = @ + 1,
                                                !.toks = Append(@, auth_token)]]
    /\ UNCHANGED <<creds, client, selected, auth_token, issued, upload_chunk_size,
                   content, chunks, upl, run, getf, program, faults>>

\* the transport answers a request and the wrapper runs to its next await
Respond(id) ==
    /\ calls[id].pc = "inflight" /\ ~Blocked
    /\ \E r \in Responses :
          /\ IsFault(r) => faults < MaxFaults
          /\ faults' = IF IsFault(r) THEN faults + 1 ELSE faults
          /\ \E body \in Bodies(id, r) :
                Resume(id, OnResponse(Kind(id), calls[id], r), body)
    /\ UNCHANGED <<creds, client, selected, auth_token, issued, upload_chunk_size,
                   content, chunks, program>>

\* the authentication endpoint accepts a request and issues its next token; the
\* answer is on its way to the client (the endpoint does not wait for the client)
AuthIssue(id) ==
    /\ calls[id].pc = "auth"
    /\ issued' = issued + 1
    /\ calls' = [calls EXCEPT ![id] = [@ EXCEPT !.pc = "granted", !.grant = issued + 1]]
    /\ UNCHANGED <<creds, client, selected, auth_token, upload_chunk_size, content,
                   chunks, upl, run, getf, program, faults>>

\* the answers a client may see to an authentication request: the 200 carrying the
\* issued token, else a refusal or a transport error (which strikes before the
\* endpoint issues anything)
AuthAnswers(c) ==
    IF c.pc = "granted" THEN {Status(200)}
    ELSE Responses \ {Status(200)}

\* self._auth_token after _basic_auth / _cert_auth has seen the answer
\* an authentication that clears the token when it fails
TokenAfterAuthMut(c, r) == IF r = Status(200) THEN c.grant ELSE 0

TokenAfterAuth(c, r) == IF r = Status(200) THEN c.grant ELSE auth_token

\* the answer of the authentication endpoint reaches _basic_auth / _cert_auth: on
\* success the token is replaced, then _recover_or_raise raises ReAuthException
\* into tenacity
AuthRespond(id) ==
    /\ calls[id].pc \in {"auth", "granted"} /\ ~Blocked
    /\ \E r \in AuthAnswers(calls[id]) :
          /\ IsFault(r) => faults < MaxFaults
          /\ faults' = IF IsFault(r) THEN faults + 1 ELSE faults
          /\ auth_token' = TokenAfterAuth(calls[id], r)
          /\ Resume(id, OnAuthResponse(calls[id], r), NoBody)
    /\ UNCHANGED <<creds, client, selected, issued, upload_chunk_size, content, chunks,
                   program>>

(* -------------------------- specifications ----------------------------- *)
CredentialSets == [user_email : BOOLEAN, password : BOOLEAN,
                   certificate : BOOLEAN, private_key : BOOLEAN]
BasicOnly == [user_email |-> TRUE, password |-> TRUE,
              certificate |-> FALSE, private_key |-> FALSE]
CertOnly == [user_email |-> FALSE, password |-> FALSE,
             certificate |-> TRUE, private_key |-> TRUE]

\* the content of length n used where only the number of chunks matters
Sample(n) == [k \in 1..n |-> k % 2]

RECURSIVE SeqsUpTo(_, _)
SeqsUpTo(S, n) ==
    IF n = 0 THEN {<<>>}
    ELSE LET shorter == SeqsUpTo(S, n - 1)
         IN  shorter \cup {Append(q, x) : q \in {p \in shorter : Len(p) = n - 1}, x \in S}

InitRest ==
    /\ client = "new"
    /\ selected = "none"
    /\ auth_token = 0
    /\ issued = 0
    /\ chunks = <<>>
    /\ calls = [id \in CallIds |-> IdleCall]
    /\ upl = IdleUpload
    /\ run = IdleRun
    /\ getf = IdleGet
    /\ faults = 0

\* a program that constructs a client and then either uploads a file or runs an
\* action while it downloads a file
Init ==
    /\ creds \in {BasicOnly, CertOnly}
    /\ \/ /\ program = "upload"
          /\ upload_chunk_size \in 1..MaxChunkSize
          /\ content \in {Sample(n) : n \in 0..MaxLen}
       \/ /\ program = "run"
          /\ upload_chunk_size = MaxChunkSize
          /\ content = <<>>
    /\ InitRest

Next ==
    \/ Construct
    \/ UploadFile
    \/ UploadJoin
    \/ RunAction
    \/ Wake
    \/ GetFile
    \/ \E id \in CallIds : Send(id)
    \/ \E id \in CallIds : Respond(id)
    \/ \E id \in CallIds : AuthIssue(id)
    \/ \E id \in CallIds : AuthRespond(id)

Spec == Init /\ [][Next]_vars

\* the scheduling run_action relies on: the event loop runs a coroutine that can
\* run, time.sleep returns, and every request is answered or times out
RunCalls == {<<"inv", 0>>, <<"poll", 0>>}
FairSpec ==
    /\ Spec
    /\ WF_vars(Wake)
    /\ \A id \in RunCalls :
          /\ WF_vars(Send(id))
          /\ WF_vars(Respond(id))
          /\ WF_vars(AuthIssue(id))
          /\ WF_vars(AuthRespond(id))

\* a program that constructs a client and partitions a content for upload
InitChunks ==
    /\ creds = BasicOnly
    /\ program = "upload"
    /\ upload_chunk_size \in 1..MaxChunkStep
    /\ content \in SeqsUpTo(Bytes, MaxChunkLen)
    /\ InitRest

NextChunks ==
    \/ Construct
    \/ UploadFile

SpecChunks == InitChunks /\ [][NextChunks]_vars

\* a program that constructs a client from any combination of credentials and
\* downloads a file
InitCtor ==
    /\ creds \in CredentialSets
    /\ program = "get"
    /\ upload_chunk_size = MaxChunkSize
    /\ content = <<>>
    /\ InitRest

NextCtor ==
    \/ Construct
    \/ GetFile
    \/ Send(<<"bin", 0>>)
    \/ Respond(<<"bin", 0>>)
    \/ AuthIssue(<<"bin", 0>>)
    \/ AuthRespond(<<"bin", 0>>)

SpecCtor == InitCtor /\ [][NextCtor]_vars

(* ------------------------------ claims --------------------------------- *)
Last(q) == q[Len(q)]
Requests(c) == Len(c.toks)
Count200(q) == Cardinality({k \in 1..Len(q) : q[k] = Status(200)})
PutCall(i) == calls[<<"put", i>>]

\* C1: a call whose first attempt is answered 401 (and whose reauthentication is
\* not itself refused) makes exactly one reauthentication request and re-issues
\* the original request exactly once.
C1_OneReauthOneRetry ==
    \A id \in CallIds :
        LET c == calls[id]
        IN  (/\ c.pc = "done"
             /\ Len(c.resp) >= 1 /\ c.resp[1] = Status(401)
             /\ (Len(c.authres) >= 1 => c.authres[1] = Status(200)))
            => (Len(c.auths) = 1 /\ Requests(c) = 2)

\* C2: when the first attempt and the retry are both answered 401, the second 401
\* starts no further reauthentication and the caller receives the HTTP 401 error
\* itself, never ReAuthException or a wrapper around it.
C2_SecondUnauthorizedPropagates ==
    \A id \in CallIds :
        LET c == calls[id]
        IN  (Len(c.resp) = 2 /\ c.resp[1] = Status(401) /\ c.resp[2] = Status(401))
            => /\ Len(c.auths) = 1
               /\ c.pc = "done"
               /\ c.out = HTTPStatusError(401)

\* C3: no logical call issues its request more than twice, whatever the answers.
C3_AtMostTwoRequests ==
    \A id \in CallIds : Requests(calls[id]) <= 2 /\ calls[id].attempt <= 2

\* C3 witness: a call that has finished after issuing its request twice
C3_Witness ==
    \E id \in CallIds : calls[id].pc = "done" /\ Requests(calls[id]) = 2

\* C4: a call answered 404 ends in InvalidIdentifierException, for POST calls
\* (invoke_action, the chunk-count declaration) as for GET and chunk PUT calls.
C4_NotFoundIsInvalidIdentifier ==
    \A id \in CallIds :
        LET c == calls[id]
        IN  (c.pc = "done" /\ Len(c.resp) >= 1 /\ Last(c.resp) = Status(404))
            => c.out = InvalidIdentifierException

\* C5: run_action sleeps and polls again only while taskState lacks "COMPLETE";
\* once a polled taskState contains it, run_action raises AnaplanActionError
\* exactly when result.successful is false, and returns when it is true.
C5_RunActionOutcome ==
    /\ run.pc = "sleeping" => ~Contains(COMPLETE, run.taskState)
    /\ run.pc = "returned" => Contains(COMPLETE, run.taskState) /\ run.successful
    /\ (run.pc = "raised" /\ run.err = AnaplanActionError)
          => Contains(COMPLETE, run.taskState) /\ ~run.successful

\* C6: upload_file cuts a content of length N with chunk size C >= 1 into
\* ceil(N/C) chunks of at most C bytes, chunk i being bytes
\* [i*C, min((i+1)*C, N)), and the chunks concatenated give the content back.
C6_PartitionCorrect ==
    upl.pc # "idle" =>
        LET N == Len(content)
            C == upload_chunk_size
        IN  /\ Len(chunks) = (N + C - 1) \div C
            /\ \A i \in 0..(Len(chunks) - 1) :
                  /\ Len(chunks[i + 1]) <= C
                  /\ Len(chunks[i + 1]) = Min((i + 1) * C, N) - i * C
                  /\ \A k \in 1..Len(chunks[i + 1]) :
                        chunks[i + 1][k] = content[i * C + k]
            /\ Concat(chunks) = content

\* C6 witness: a partition of several chunks whose last chunk is short
C6_Witness ==
    /\ upl.pc # "idle"
    /\ Len(chunks) >= 2
    /\ Len(Last(chunks)) < upload_chunk_size

\* C7: when upload_file has returned normally, the declared chunk count is the
\* number of chunks transmitted: every index below it was acknowledged by
\* exactly one PUT, and no PUT was issued for any other index.
C7_DeclaredEqualsTransmitted ==
    upl.pc = "returned" =>
        \A id \in PutIds :
            IF id[2] < upl.declared
            THEN calls[id].pc = "done" /\ Count200(calls[id].resp) = 1
            ELSE Requests(calls[id]) = 0

\* C7 witness: an upload of two chunks has returned, one of them after a retry
C7_Witness ==
    /\ upl.pc = "returned"
    /\ upl.declared = 2
    /\ \E id \in PutIds : Requests(calls[id]) = 2

\* C8: no chunk PUT is issued before the chunk-count declaration of the upload
\* has completed.
C8_DeclareBeforeChunks ==
    \A id \in PutIds :
        Requests(calls[id]) > 0 => calls[<<"decl", 0>>].pc = "done"

\* C8 witness: the chunks complete in any order: chunk 1 is acknowledged while
\* chunk 0, sent after the declaration, is still waiting for its answer
C8_Witness ==
    /\ calls[<<"decl", 0>>].pc = "done"
    /\ PutCall(1).pc = "done" /\ PutCall(1).out = Return
    /\ PutCall(0).pc = "inflight" /\ Requests(PutCall(0)) = 1

\* C9: upload_file returns normally only when every chunk was acknowledged; when
\* it fails in the transmission phase, the error it raises is the error of a
\* chunk whose transmission failed, within that chunk's two attempts.
C9_UploadOutcome ==
    /\ upl.pc = "returned" =>
          \A i \in 0..(Len(chunks) - 1) :
              /\ PutCall(i).pc = "done" /\ PutCall(i).out = Return
              /\ Last(PutCall(i).resp) = Status(200)
    /\ (upl.pc = "raised" /\ calls[<<"decl", 0>>].out = Return) =>
          \E i \in 0..(Len(chunks) - 1) :
              /\ PutCall(i).pc = "done" /\ PutCall(i).out # Return
              /\ PutCall(i).out = upl.err
              /\ Requests(PutCall(i)) <= 2

\* C9 witness: an upload has failed with the error of a chunk that used both of
\* its attempts, while the other chunk was acknowledged
C9_Witness ==
    /\ upl.pc = "raised"
    /\ \E i, j \in 0..(Len(chunks) - 1) :
          /\ PutCall(i).pc = "done" /\ PutCall(i).out = upl.err
          /\ Requests(PutCall(i)) = 2
          /\ PutCall(j).pc = "done" /\ PutCall(j).out = Return

\* C10: construction succeeds only with exactly one complete credential pair and
\* no part of the other, and the protocol selected at construction and used by
\* every later reauthentication is that of the complete pair.
C10_ExactlyOneVariant ==
    LET basic == creds.user_email /\ creds.password
        cert == creds.certificate /\ creds.private_key
        proto == IF cert THEN "cert" ELSE "basic"
    IN  client = "ok" =>
           /\ \/ basic /\ ~creds.certificate /\ ~creds.private_key
              \/ cert /\ ~creds.user_email /\ ~creds.password
           /\ selected = proto
           /\ \A id \in CallIds : \A k \in 1..Len(calls[id].auths) :
                 calls[id].auths[k] = proto

\* C11: a 401 from the authentication endpoint is terminal: the call ends in
\* InvalidCredentialsException, the authentication request is not repeated and
\* the original request is not issued again.
C11_AuthRefusalIsTerminal ==
    \A id \in CallIds :
        LET c == calls[id]
        IN  \A k \in 1..Len(c.authres) :
                c.authres[k] = Status(401) =>
                    /\ k = Len(c.authres)
                    /\ Len(c.auths) = k
                    /\ c.pc = "done"
                    /\ c.out = InvalidCredentialsException
                    /\ Requests(c) = Len(c.resp)

\* C11 witness: a call whose reauthentication was refused with 401 has ended
C11_Witness ==
    \E id \in CallIds :
        /\ calls[id].pc = "done"
        /\ Len(calls[id].authres) >= 1
        /\ Last(calls[id].authres) = Status(401)
        /\ calls[id].out = InvalidCredentialsException

\* C12: a call whose request fails with neither 401 nor 404 (a 500, a transport
\* error) ends in that very error, with no reauthentication and no retry after
\* it, and never in a normal return.
C12_OtherFailuresPropagate ==
    \A id \in CallIds :
        LET c == calls[id]
        IN  \A k \in 1..Len(c.resp) :
                c.resp[k] \in {Status(500), Timeout} =>
                    /\ k = Len(c.resp) /\ Requests(c) = k
                    /\ Len(c.auths) = k - 1
                    /\ c.pc = "done"
                    /\ c.out = IF c.resp[k] = Timeout THEN TransportError
                               ELSE HTTPStatusError(500)

RefreshInFlight == \E id \in CallIds : calls[id].pc \in {"auth", "granted"}

\* C13: under any interleaving of operations that each refresh the token,
\* whenever no refresh is in flight the current token is the one the
\* authentication endpoint issued most recently, never an older one.
C13_TokenIsLatestIssued ==
    ~RefreshInFlight => auth_token = issued

\* a step get_file's call can take on the client: start its retry, or handle an
\* answer that has arrived
DownloadStep ==
    \/ Send(<<"bin", 0>>)
    \/ Respond(<<"bin", 0>>)
    \/ AuthRespond(<<"bin", 0>>)

\* C14: the delay between two polls of run_action is a suspension point: while
\* run_action waits there, a concurrently scheduled operation (here get_file)
\* that has a step to take can take it.
C14_DelayIsSuspensionPoint ==
    (run.pc = "sleeping" /\ calls[<<"bin", 0>>].pc \in {"ready", "inflight", "granted"})
        => ENABLED DownloadStep

Count401(q) == Cardinality({k \in 1..Len(q) : q[k] = Status(401)})

\* a step the transmission of one chunk can take on the client
ChunkStep(id) == Send(id) \/ Respond(id) \/ AuthRespond(id)

\* C15: within one upload every chunk has its own reauthentication and its own
\* retry: a chunk reauthenticates once per 401 of its own, gets its retry after
\* its own first successful reauthentication and only then, and while another
\* chunk is reauthenticating a chunk that has a step to take can take it.
C15_ChunksRetryIndependently ==
    \A id \in PutIds :
        LET c == calls[id]
        IN  /\ Len(c.auths) = Count401(c.resp)
            /\ (Requests(c) = 2 \/ c.pc = "ready")
                  <=> (Len(c.authres) >= 1 /\ c.authres[1] = Status(200))
            /\ (/\ c.pc \in {"ready", "inflight", "granted"}
                /\ \E other \in PutIds \ {id} : calls[other].pc \in {"auth", "granted"})
                  => ENABLED ChunkStep(id)

\* C15 witness: chunk 1 was refused, reauthenticated, retried and acknowledged,
\* all while chunk 0 is still waiting for the answer to its reauthentication
C15_Witness ==
    /\ PutCall(0).pc = "auth" /\ Requests(PutCall(0)) = 1
    /\ PutCall(1).pc = "done" /\ PutCall(1).out = Return
    /\ Requests(PutCall(1)) = 2

RunEnded == run.pc \in {"returned", "raised"}

\* the invocation and the last status poll were answered 200
RunCallsSucceeded ==
    /\ calls[<<"inv", 0>>].out = Return
    /\ Last(calls[<<"inv", 0>>].resp) = Status(200)
    /\ calls[<<"poll", 0>>].out = Return

\* a new get_task_status call starts in this step
PollStarts ==
    /\ calls'[<<"poll", 0>>] # calls[<<"poll", 0>>]
    /\ calls'[<<"poll", 0>>].attempt = 1
    /\ calls'[<<"poll", 0>>].resp = <<>>

\* C16: with the server reporting a terminal taskState in the end, a run_action
\* that has invoked its action eventually ends; when its calls succeeded it ends by
\* returning or by AnaplanActionError; and it starts a poll only when the poll
\* before it has finished.
C16_RunActionTerminates ==
    /\ (run.pc = "invoking") ~> RunEnded
    /\ []((run.pc = "raised" /\ RunCallsSucceeded) => run.err = AnaplanActionError)
    /\ [][PollStarts => calls[<<"poll", 0>>].pc \in {"idle", "done"}]_vars

\* C16 witness: run_action has returned after a second poll, having slept between
C16_Witness ==
    /\ run.pc = "returned"
    /\ run.polls = 2
    /\ run.successful

\* C17: once the constructor has returned, the current token is one the
\* authentication endpoint issued, and the first request of every call carries an
\* issued token and not the empty initial value.
C17_TokenIssuedAtConstruction ==
    /\ client = "ok" => auth_token # 0
    /\ \A id \in CallIds : Requests(calls[id]) > 0 => calls[id].toks[1] # 0

\* the authentication of call id is answered in this step
AuthAnswered(id) == Len(calls'[id].authres) = Len(calls[id].authres) + 1

\* C18: a failed authentication attempt leaves the current token unchanged, and
\* the token is replaced only by the token of a successful authentication
\* response, in one assignment.
C18_TokenReplacedOnlyOnSuccess ==
    [][/\ \A id \in CallIds :
             (AuthAnswered(id) /\ Last(calls'[id].authres) # Status(200))
                 => auth_token' = auth_token
       /\ auth_token' # auth_token =>
             \E id \in CallIds :
                 /\ AuthAnswered(id)
                 /\ Last(calls'[id].authres) = Status(200)
                 /\ calls[id].pc = "granted"
                 /\ auth_token' = calls[id].grant]_vars

\* C18 witness: an authentication has failed while the client held an issued token
C18_Witness ==
    /\ auth_token # 0
    /\ \E id \in CallIds :
          /\ calls[id].pc = "done"
          /\ Len(calls[id].authres) >= 1
          /\ Last(calls[id].authres) # Status(200)

\* C19: no chunk is sent for an upload whose chunk-count declaration the server
\* did not accept.
C19_NoChunkAfterRejectedDeclaration ==
    \A id \in PutIds :
        Requests(calls[id]) > 0 =>
            /\ calls[<<"decl", 0>>].resp # <<>>
            /\ Last(calls[<<"decl", 0>>].resp) = Status(200)

UploadCalls == {<<"decl", 0>>} \cup PutIds

\* C20 as stated: once upload_file has returned or raised, no call of the upload
\* is in flight, reauthenticating or waiting for its retry.
C20_NothingInFlightAfterOutcome ==
    upl.pc \in {"returned", "raised"} =>
        \A id \in UploadCalls : calls[id].pc \in {"idle", "done"}

\* C20 amended: once upload_file has returned normally, no call of the upload is in
\* flight and none takes a further step; after a raised failure the other chunk
\* uploads run on until they finish on their own.
C20_QuietAfterNormalReturn ==
    /\ [](upl.pc = "returned" =>
            \A id \in UploadCalls : calls[id].pc \in {"idle", "done"})
    /\ [][upl.pc = "returned" => \A id \in UploadCalls : calls'[id] = calls[id]]_vars

\* C20 witness: an upload has returned after one of its chunks reauthenticated
C20_Witness ==
    /\ upl.pc = "returned"
    /\ \E id \in PutIds : Len(calls[id].authres) = 1 /\ calls[id].pc = "done"

====
